---------------------------- MODULE Spec2Model ----------------------------
(***************************************************************************)
(* Model of customizer.py: the Eq subclass whose operators broadcast over  *)
(* both sides of an equation, the wrapper _wrap_function builds around a   *)
(* host-library function, and the module-level loop that publishes the     *)
(* wrappers.                                                               *)
(*                                                                         *)
(* Host-library values are terms of a free algebra: `l op r` on            *)
(* expressions is the term BinOp(op, l, r), a call of an original function *)
(* is the term App(func, args, kwargs) or the error Err(func, args,        *)
(* kwargs).  Nothing is simplified, so operand order and the identity of   *)
(* every original call stay visible in the results.                        *)
(***************************************************************************)
EXTENDS Integers, Sequences, FiniteSets

VARIABLES host, pc, names, idx, func, module, call, log, ret

vars == <<host, pc, names, idx, func, module, call, log, ret>>

loadVars == <<host, pc, names, idx, func, module>>

(***************************************************************************)
(* Bounds of the model.                                                    *)
(***************************************************************************)
\* values of depth < MaxDepth computed by one operation may be fed to the next
MaxDepth == 2
\* largest number of positional arguments of a wrapped call
MaxArgs == 2

(***************************************************************************)
(* Values.                                                                 *)
(***************************************************************************)
Atom(n) == [tag |-> "Atom", name |-> n]

\* host-library arithmetic `l op r`
BinOp(op, l, r) == [tag |-> "BinOp", op |-> op, l |-> l, r |-> r]

\* Eq(lhs, rhs): the constructor Eq inherits from the host library
MkEq(l, r) == [tag |-> "Eq", lhs |-> l, rhs |-> r]

\* isinstance(v, Eq)
IsEq(v) == v.tag = "Eq"

None == [tag |-> "None"]

\* the value a call func(*args, **kwargs) of an original returns
App(f, args, kwargs) == [tag |-> "App", func |-> f, args |-> args, kwargs |-> kwargs]

\* the exception a call func(*args, **kwargs) of an original raises
Err(f, args, kwargs) == [tag |-> "Error", func |-> f, args |-> args, kwargs |-> kwargs]

Return(v) == [kind |-> "return", value |-> v]

Raise(e) == [kind |-> "raise", value |-> e]

(***************************************************************************)
(* class Eq(sympy.Eq): the operator methods.                               *)
(***************************************************************************)
Eq__add__(self, other) ==
    IF IsEq(other)
    THEN MkEq(BinOp("+", self.lhs, other.lhs), BinOp("+", self.rhs, other.rhs))
    ELSE MkEq(BinOp("+", self.lhs, other), BinOp("+", self.rhs, other))

Eq__radd__(self, other) ==
    MkEq(BinOp("+", self.lhs, other), BinOp("+", self.rhs, other))

Eq__sub__mut(self, other) ==
    IF IsEq(other)
    THEN MkEq(BinOp("-", self.lhs, other.lhs), BinOp("-", self.rhs, other.rhs))
    ELSE MkEq(BinOp("-", other, self.lhs), BinOp("-", other, self.rhs))

Eq__sub__(self, other) ==
    IF IsEq(other)
    THEN MkEq(BinOp("-", self.lhs, other.lhs), BinOp("-", self.rhs, other.rhs))
    ELSE MkEq(BinOp("-", self.lhs, other), BinOp("-", self.rhs, other))

Eq__rsub__(self, other) ==
    MkEq(BinOp("-", self.lhs, other), BinOp("-", self.rhs, other))

Eq__mul__mut(self, other) ==
    MkEq(BinOp("*", self.lhs, other), BinOp("*", self.rhs, other))

Eq__mul__(self, other) ==
    IF IsEq(other)
    THEN MkEq(BinOp("*", self.lhs, other.lhs), BinOp("*", self.rhs, other.rhs))
    ELSE MkEq(BinOp("*", self.lhs, other), BinOp("*", self.rhs, other))

Eq__rmul__(self, other) ==
    MkEq(BinOp("*", other, self.lhs), BinOp("*", other, self.rhs))

Eq__truediv__(self, other) ==
    IF IsEq(other)
    THEN MkEq(BinOp("/", self.lhs, other.lhs), BinOp("/", self.rhs, other.rhs))
    ELSE MkEq(BinOp("/", self.lhs, other), BinOp("/", self.rhs, other))

Eq__rtruediv__mut(self, other) ==
    MkEq(BinOp("/", self.lhs, other), BinOp("/", self.rhs, other))

Eq__rtruediv__(self, other) ==
    MkEq(BinOp("/", other, self.lhs), BinOp("/", other, self.rhs))

\* modulo is accepted and not used
Eq__pow__(self, power, modulo) ==
    MkEq(BinOp("**", self.lhs, power), BinOp("**", self.rhs, power))

(***************************************************************************)
(* _wrap_function(func) and the function f it returns.                     *)
(***************************************************************************)
\* one call of the original; `fails` is the host library's choice to raise
CallOrig(f, args, kwargs, fails) ==
    [func |-> f, args |-> args, kwargs |-> kwargs,
     outcome |-> IF fails THEN Raise(Err(f, args, kwargs))
                 ELSE Return(App(f, args, kwargs))]

\* if not args
NoArgs(args) == args = <<>>

\* isinstance(args[0], Eq)
FirstArgIsEq(args) == IsEq(args[1])

IsSolverName_mut(n) == n \in {"solve", "nsolve", "dsolve", "solveset"}

\* func.__name__ in ['solve', 'nsolve', 'dsolve']
IsSolverName(n) == n \in {"solve", "nsolve", "dsolve"}

SolveDispatch_mut(f, eq, other_args, kwargs, fail1) ==
    LET c == CallOrig(f, <<BinOp("-", eq.rhs, eq.lhs)>> \o other_args, kwargs, fail1)
    IN  [log |-> <<c>>, ret |-> c.outcome]

\* return func(eq.lhs - eq.rhs, *other_args, **kwargs)
SolveDispatch(f, eq, other_args, kwargs, fail1) ==
    LET c == CallOrig(f, <<BinOp("-", eq.lhs, eq.rhs)>> \o other_args, kwargs, fail1)
    IN  [log |-> <<c>>, ret |-> c.outcome]

Broadcast_mut(f, eq, other_args, kwargs, fail1, fail2) ==
    LET c1 == CallOrig(f, <<eq.lhs>> \o other_args, kwargs, fail1)
        c2 == CallOrig(f, <<eq.rhs>> \o other_args, kwargs, fail2)
    IN  IF c2.outcome.kind = "raise"
        THEN [log |-> <<c1, c2>>, ret |-> c2.outcome]
        ELSE IF c1.outcome.kind = "raise"
        THEN [log |-> <<c1, c2>>, ret |-> c1.outcome]
        ELSE [log |-> <<c1, c2>>,
              ret |-> Return(MkEq(c1.outcome.value, c2.outcome.value))]

\* return Eq(func(eq.lhs, ...), func(eq.rhs, ...)): the arguments of Eq are
\* evaluated left to right, and an exception ends the evaluation
Broadcast(f, eq, other_args, kwargs, fail1, fail2) ==
    LET c1 == CallOrig(f, <<eq.lhs>> \o other_args, kwargs, fail1)
        c2 == CallOrig(f, <<eq.rhs>> \o other_args, kwargs, fail2)
    IN  IF c1.outcome.kind = "raise"
        THEN [log |-> <<c1>>, ret |-> c1.outcome]
        ELSE IF c2.outcome.kind = "raise"
        THEN [log |-> <<c1, c2>>, ret |-> c2.outcome]
        ELSE [log |-> <<c1, c2>>,
              ret |-> Return(MkEq(c1.outcome.value, c2.outcome.value))]

PassThrough_mut(f, args, kwargs, fail1) ==
    LET c == CallOrig(f, args, [k \in {} |-> None], fail1)
    IN  [log |-> <<c>>, ret |-> c.outcome]

\* return func(*args, **kwargs)
PassThrough(f, args, kwargs, fail1) ==
    LET c == CallOrig(f, args, kwargs, fail1)
    IN  [log |-> <<c>>, ret |-> c.outcome]

\* f(*args, **kwargs) of the wrapper whose closure holds the original f
WrappedF(f, args, kwargs, fail1, fail2) ==
    IF NoArgs(args)
    THEN PassThrough(f, args, kwargs, fail1)
    ELSE IF FirstArgIsEq(args)
    THEN LET eq == args[1]
             other_args == Tail(args)
         IN  IF IsSolverName(f.name)
             THEN SolveDispatch(f, eq, other_args, kwargs, fail1)
             ELSE Broadcast(f, eq, other_args, kwargs, fail1, fail2)
    ELSE PassThrough(f, args, kwargs, fail1)

\* _wrap_function(func): a closure over its own parameter
WrapFunction(f) == [tag |-> "wrapper", func |-> f]


(***************************************************************************)
(* The host library: what dir(sympy) lists, in the order dir() lists it,   *)
(* and the object each name is bound to.  An object has the kind the       *)
(* loop's isinstance tests look at and its __name__.                       *)
(***************************************************************************)
Obj(kind, n) == [kind |-> kind, name |-> n]

NoObj == Obj("unset", "")

\* dir(sympy), sorted as dir() sorts
HostNameSeq ==
    <<"Abs", "__version__", "dsolve", "ln", "nsolve", "pi", "solve",
      "solveset", "sqrt">>

HostNames == {HostNameSeq[i] : i \in DOMAIN HostNameSeq}

\* a sample of the host library's namespace
SympySample ==
    [n \in HostNames |->
        CASE n = "Abs" -> Obj("FunctionClass", "Abs")
          [] n = "__version__" -> Obj("other", "str")
          [] n = "dsolve" -> Obj("function", "dsolve")
          [] n = "ln" -> Obj("FunctionClass", "log")
          [] n = "nsolve" -> Obj("function", "nsolve")
          [] n = "pi" -> Obj("other", "Pi")
          [] n = "solve" -> Obj("function", "solve")
          [] n = "solveset" -> Obj("function", "solveset")
          [] n = "sqrt" -> Obj("function", "sqrt")]

\* the objects a name of an arbitrary host namespace may be bound to
LoadObjects ==
    {Obj("function", "solve"), Obj("FunctionClass", "log"), Obj("other", "Pi")}

\* name[0]
FirstChar(n) ==
    CASE n = "Abs" -> "A"
      [] n = "__version__" -> "_"
      [] n = "dsolve" -> "d"
      [] n = "ln" -> "l"
      [] n = "nsolve" -> "n"
      [] n = "pi" -> "p"
      [] n \in {"solve", "solveset", "sqrt"} -> "s"

LowerCaseLetters ==
    {"a", "b", "c", "d", "e", "f", "g", "h", "i", "j", "k", "l", "m",
     "n", "o", "p", "q", "r", "s", "t", "u", "v", "w", "x", "y", "z"}

IsLowerFirst_mut(n) == FirstChar(n) # "_"

\* name[0] in 'abcdefghijklmnopqrstuvwxyz'
IsLowerFirst(n) == FirstChar(n) \in LowerCaseLetters

\* isinstance(func, types.FunctionType) or isinstance(func, sympy.FunctionClass)
IsWrappable(f) == f.kind = "function" \/ f.kind = "FunctionClass"

\* setattr(this_module, name, value)
SetAttr(ns, n, v) ==
    [m \in DOMAIN ns \cup {n} |-> IF m = n THEN v ELSE ns[m]]

(***************************************************************************)
(* Module load: lines 97-99, then one iteration of the loop per step.      *)
(***************************************************************************)
LoadNames ==
    /\ pc = "import"
    /\ names' = SelectSeq(HostNameSeq, IsLowerFirst)
    /\ idx' = 1
    /\ pc' = IF names' = <<>> THEN "ready" ELSE "loop"
    /\ UNCHANGED <<host, func, module, call, log, ret>>

LoopBody ==
    /\ pc = "loop"
    /\ LET name == names[idx]
           f == host[name]
       IN  /\ func' = f
           /\ module' = IF IsWrappable(f)
                        THEN SetAttr(module, name, WrapFunction(f))
                        ELSE module
    /\ idx' = idx + 1
    /\ pc' = IF idx = Len(names) THEN "ready" ELSE "loop"
    /\ UNCHANGED <<host, names, call, log, ret>>

(***************************************************************************)
(* Client code, after the import: the values it works with.                *)
(***************************************************************************)
Atoms == {Atom("x"), Atom("k")}

BaseEqs == {MkEq(Atom("x"), Atom("k")), MkEq(Atom("k"), Atom("x"))}

Max(a, b) == IF a >= b THEN a ELSE b

RECURSIVE SetMax(_)
SetMax(S) ==
    IF S = {} THEN 0
    ELSE LET m == CHOOSE m \in S : TRUE IN Max(m, SetMax(S \ {m}))

\* number of nested operations and calls a value is the result of
RECURSIVE Depth(_)
Depth(v) ==
    CASE v.tag = "Eq" -> Max(Depth(v.lhs), Depth(v.rhs))
      [] v.tag = "BinOp" -> 1 + Max(Depth(v.l), Depth(v.r))
      [] v.tag = "App" ->
            1 + SetMax({Depth(v.args[i]) : i \in DOMAIN v.args}
                       \cup {Depth(v.kwargs[k]) : k \in DOMAIN v.kwargs})
      [] OTHER -> 0

\* the equation the previous operation returned, if the client goes on with it
Chained ==
    IF ret.kind = "return" /\ IsEq(ret.value) /\ Depth(ret.value) < MaxDepth
    THEN {ret.value} ELSE {}

\* the client starts from a base equation and goes on with what it computed
EqPool == IF call.kind = "none" THEN BaseEqs ELSE Chained

Operands == Atoms \cup BaseEqs

\* further positional arguments and keyword values of a wrapped call
ExtraVals == {Atom("x"), MkEq(Atom("x"), Atom("k"))}

RECURSIVE SeqsUpTo(_, _)
SeqsUpTo(S, n) ==
    IF n = 0 THEN {<<>>}
    ELSE LET shorter == SeqsUpTo(S, n - 1)
         IN  shorter \cup {Append(s, e) : s \in shorter, e \in S}

NoKwargs == [k \in {} |-> None]

KwargsSet == {NoKwargs} \cup {[k \in {"evaluate"} |-> v] : v \in ExtraVals}

\* the (args, kwargs) of the wrapped calls the client makes
CallInputs ==
    IF call.kind = "none"
    THEN ({<<>>} \cup {<<v>> \o rest : v \in Atoms \cup BaseEqs,
                                    rest \in SeqsUpTo(ExtraVals, MaxArgs - 1)})
            \X KwargsSet
    ELSE {<<v>> : v \in Chained} \X {NoKwargs}

(***************************************************************************)
(* Client code: one action per operator method and one for a call of a     *)
(* published wrapper.                                                      *)
(***************************************************************************)
DoOp(method, self, other, modulo, result) ==
    /\ call' = [kind |-> "op", method |-> method, self |-> self,
                other |-> other, modulo |-> modulo]
    /\ log' = <<>>
    /\ ret' = Return(result)
    /\ UNCHANGED loadVars

OpAdd ==
    /\ pc = "ready"
    /\ \E self \in EqPool, other \in Operands :
          DoOp("__add__", self, other, None, Eq__add__(self, other))

\* a reflected method runs when the left operand is not an Eq
OpRAdd ==
    /\ pc = "ready"
    /\ \E self \in EqPool, other \in Atoms :
          DoOp("__radd__", self, other, None, Eq__radd__(self, other))

OpSub ==
    /\ pc = "ready"
    /\ \E self \in EqPool, other \in Operands :
          DoOp("__sub__", self, other, None, Eq__sub__(self, other))

OpRSub ==
    /\ pc = "ready"
    /\ \E self \in EqPool, other \in Atoms :
          DoOp("__rsub__", self, other, None, Eq__rsub__(self, other))

OpMul ==
    /\ pc = "ready"
    /\ \E self \in EqPool, other \in Operands :
          DoOp("__mul__", self, other, None, Eq__mul__(self, other))

OpRMul ==
    /\ pc = "ready"
    /\ \E self \in EqPool, other \in Atoms :
          DoOp("__rmul__", self, other, None, Eq__rmul__(self, other))

OpTrueDiv ==
    /\ pc = "ready"
    /\ \E self \in EqPool, other \in Operands :
          DoOp("__truediv__", self, other, None, Eq__truediv__(self, other))

OpRTrueDiv ==
    /\ pc = "ready"
    /\ \E self \in EqPool, other \in Atoms :
          DoOp("__rtruediv__", self, other, None, Eq__rtruediv__(self, other))

OpPow ==
    /\ pc = "ready"
    /\ \E self \in EqPool, power \in Operands, modulo \in {None, Atom("k")} :
          DoOp("__pow__", self, power, modulo, Eq__pow__(self, power, modulo))

\* the client calls the wrapper published under n; fail1 and fail2 are the
\* host library's choice to raise in the first and second call of the original
WrappedCall ==
    /\ pc = "ready"
    /\ \E n \in DOMAIN module, input \in CallInputs, fail1 \in BOOLEAN,
          fail2 \in BOOLEAN :
          LET f == module[n].func
              r == WrappedF(f, input[1], input[2], fail1, fail2)
          IN  /\ call' = [kind |-> "wrapped", name |-> n, func |-> f,
                          args |-> input[1], kwargs |-> input[2]]
              /\ log' = r.log
              /\ ret' = r.ret
    /\ UNCHANGED loadVars

(***************************************************************************)
(* Specifications.                                                         *)
(***************************************************************************)
InitVars ==
    /\ pc = "import"
    /\ names = <<>>
    /\ idx = 0
    /\ func = NoObj
    /\ module = [n \in {} |-> None]
    /\ call = [kind |-> "none"]
    /\ log = <<>>
    /\ ret = Return(None)

\* the import of the module against the sample host, then client code
Init == host = SympySample /\ InitVars

Next ==
    \/ LoadNames
    \/ LoopBody
    \/ OpAdd
    \/ OpRAdd
    \/ OpSub
    \/ OpRSub
    \/ OpMul
    \/ OpRMul
    \/ OpTrueDiv
    \/ OpRTrueDiv
    \/ OpPow
    \/ WrappedCall

Spec == Init /\ [][Next]_vars

\* the import of the module against every host namespace over HostNames
InitLoad == host \in [HostNames -> LoadObjects] /\ InitVars

NextLoad == LoadNames \/ LoopBody

SpecLoad == InitLoad /\ [][NextLoad]_vars


(***************************************************************************)
(* Properties.  `call` is the operation the client ran last, `log` the     *)
(* calls of the original it made, in order, and `ret` what it returned or  *)
(* raised.                                                                 *)
(***************************************************************************)
OpSym(method) ==
    CASE method \in {"__add__", "__radd__"} -> "+"
      [] method \in {"__sub__", "__rsub__"} -> "-"
      [] method \in {"__mul__", "__rmul__"} -> "*"
      [] method \in {"__truediv__", "__rtruediv__"} -> "/"
      [] method = "__pow__" -> "**"

IsOp(methods) == call.kind = "op" /\ call.method \in methods

SolverNames == {"solve", "nsolve", "dsolve"}

IsWrappedCall == call.kind = "wrapped"

EqFirst == IsWrappedCall /\ call.args # <<>> /\ IsEq(call.args[1])

NoneRaised == \A i \in DOMAIN log : log[i].outcome.kind = "return"

\* C1: k - Eq(a, b), the __rsub__ path, yields the equation (k - a, k - b).
C1_ReflectedSub ==
    IsOp({"__rsub__"}) =>
        ret = Return(MkEq(BinOp("-", call.other, call.self.lhs),
                          BinOp("-", call.other, call.self.rhs)))

\* C2: for op in {+, -, *, /, **} and a right operand k that is not an
\* equation, Eq(a, b) op k yields the equation (a op k, b op k).
C2_SameOperand ==
    (/\ IsOp({"__add__", "__sub__", "__mul__", "__truediv__", "__pow__"})
     /\ ~IsEq(call.other)) =>
        ret = Return(MkEq(BinOp(OpSym(call.method), call.self.lhs, call.other),
                          BinOp(OpSym(call.method), call.self.rhs, call.other)))

\* an equation computed before is raised to a power that is not an equation
C2_Witness ==
    /\ IsOp({"__pow__"})
    /\ ~IsEq(call.other)
    /\ Depth(call.self) = 1
    /\ ret.kind = "return"

\* C3: for op in {+, -, *, /}, Eq(a, b) op Eq(c, d) yields the equation
\* (a op c, b op d).
C3_Componentwise ==
    (/\ IsOp({"__add__", "__sub__", "__mul__", "__truediv__"})
     /\ IsEq(call.other)) =>
        ret = Return(MkEq(BinOp(OpSym(call.method), call.self.lhs, call.other.lhs),
                          BinOp(OpSym(call.method), call.self.rhs, call.other.rhs)))

\* two different equations are multiplied
C3_Witness ==
    /\ IsOp({"__mul__"})
    /\ IsEq(call.other)
    /\ call.other # call.self
    /\ ret.kind = "return"

\* C4: Eq(a, b) ** Eq(c, d) yields the componentwise equation (a ** c, b ** d).
C4_PowComponentwise ==
    (IsOp({"__pow__"}) /\ IsEq(call.other)) =>
        ret = Return(MkEq(BinOp("**", call.self.lhs, call.other.lhs),
                          BinOp("**", call.self.rhs, call.other.rhs)))

\* C5: k / Eq(a, b) yields (k / a, k / b) and k * Eq(a, b) yields
\* (k * a, k * b), never the swapped (a / k, b / k) or (a * k, b * k).
C5_ReflectedKeepsOrder ==
    IsOp({"__rmul__", "__rtruediv__"}) =>
        /\ ret = Return(MkEq(BinOp(OpSym(call.method), call.other, call.self.lhs),
                             BinOp(OpSym(call.method), call.other, call.self.rhs)))
        /\ ret # Return(MkEq(BinOp(OpSym(call.method), call.self.lhs, call.other),
                             BinOp(OpSym(call.method), call.self.rhs, call.other)))

\* an operand is divided by an equation
C5_Witness ==
    /\ IsOp({"__rtruediv__"})
    /\ call.other = Atom("k")
    /\ call.self = MkEq(Atom("x"), Atom("k"))
    /\ ret.kind = "return"

\* C6: a wrapper whose original is named solve, nsolve or dsolve, called with
\* an equation (a, b) first, calls the original exactly once, with a - b
\* first and the other positional and keyword arguments unchanged, and
\* returns that call's result as it is.
C6_SolverDispatch ==
    (EqFirst /\ call.func.name \in SolverNames) =>
        /\ Len(log) = 1
        /\ log[1].func = call.func
        /\ log[1].args = <<BinOp("-", call.args[1].lhs, call.args[1].rhs)>>
                            \o Tail(call.args)
        /\ log[1].kwargs = call.kwargs
        /\ ret = log[1].outcome
        /\ ret.kind = "return" =>
              ret.value = App(call.func, log[1].args, call.kwargs)

\* dsolve is called with an equation, a further argument and a keyword,
\* and returns
C6_Witness ==
    /\ EqFirst
    /\ call.func.name = "dsolve"
    /\ Len(call.args) = 2
    /\ DOMAIN call.kwargs # {}
    /\ ret.kind = "return"

\* C7: a wrapper whose original is not named solve, nsolve or dsolve, called
\* with an equation (a, b) first, calls the original exactly twice when the
\* original returns, first with a and then with b in place of the equation and
\* the other positional and keyword arguments unchanged, and returns the
\* equation of the two results.
C7_BroadcastDispatch ==
    (EqFirst /\ call.func.name \notin SolverNames /\ NoneRaised) =>
        /\ Len(log) = 2
        /\ log[1].func = call.func
        /\ log[2].func = call.func
        /\ log[1].args = <<call.args[1].lhs>> \o Tail(call.args)
        /\ log[2].args = <<call.args[1].rhs>> \o Tail(call.args)
        /\ log[1].kwargs = call.kwargs
        /\ log[2].kwargs = call.kwargs
        /\ ret = Return(MkEq(App(call.func, log[1].args, call.kwargs),
                             App(call.func, log[2].args, call.kwargs)))

\* solveset is called with an equation, a further argument and a keyword,
\* and returns
C7_Witness ==
    /\ EqFirst
    /\ call.func.name = "solveset"
    /\ Len(call.args) = 2
    /\ DOMAIN call.kwargs # {}
    /\ ret.kind = "return"
    /\ IsEq(ret.value)

\* C8: a call with no positional argument, or with a first positional
\* argument that is not an equation, calls the original exactly once with the
\* same positional and keyword arguments and returns its result unchanged,
\* also when an equation is a later positional or a keyword argument.
C8_PassThrough ==
    (IsWrappedCall /\ (call.args = <<>> \/ ~IsEq(call.args[1]))) =>
        /\ Len(log) = 1
        /\ log[1].func = call.func
        /\ log[1].args = call.args
        /\ log[1].kwargs = call.kwargs
        /\ ret = log[1].outcome
        /\ ret.kind = "return" =>
              ret.value = App(call.func, call.args, call.kwargs)

\* a keyword-only call that passes an equation by keyword returns
C8_Witness ==
    /\ IsWrappedCall
    /\ call.args = <<>>
    /\ \E k \in DOMAIN call.kwargs : IsEq(call.kwargs[k])
    /\ call.func.name \notin SolverNames
    /\ ret.kind = "return"

\* C9: after the loop, a host name is published as a wrapper if and only if
\* its first character is a lower-case ASCII letter and its value is a plain
\* function or a function-class callable, and the wrapper published under n
\* holds the original the host exports under n.
C9_DispatchTable ==
    pc = "ready" =>
        \A n \in HostNames :
            /\ n \in DOMAIN module <=>
                  /\ FirstChar(n) \in LowerCaseLetters
                  /\ host[n].kind \in {"function", "FunctionClass"}
            /\ n \in DOMAIN module =>
                  /\ module[n].tag = "wrapper"
                  /\ module[n].func = host[n]

\* the loop has finished over a host with a capitalised callable, a lower-case
\* name that is no callable, and two wrappers with different originals, the
\* last name enumerated not being wrapped
C9_Witness ==
    /\ pc = "ready"
    /\ host["Abs"].kind = "FunctionClass"
    /\ host["pi"].kind = "other"
    /\ host["sqrt"].kind = "other"
    /\ host["ln"] = Obj("FunctionClass", "log")
    /\ host["solve"] = Obj("function", "solve")
    /\ {"ln", "solve"} \subseteq DOMAIN module

\* C10: when the original raises, the same error reaches the caller and
\* nothing is returned; in a broadcast, a raise on the left side ends the
\* call before the right side is called, and a raise on the right side
\* reaches the caller in place of any result.
C10_ErrorPropagation ==
    IsWrappedCall =>
        /\ \A i \in DOMAIN log :
              log[i].outcome.kind = "raise" =>
                  /\ i = Len(log)
                  /\ ret = log[i].outcome
                  /\ ret.value = Err(call.func, log[i].args, log[i].kwargs)
        /\ ret.kind = "raise" => \E i \in DOMAIN log : log[i].outcome = ret

\* a broadcast whose call on the left side raised
C10_Witness ==
    /\ EqFirst
    /\ call.func.name \notin SolverNames
    /\ Len(log) = 1
    /\ log[1].outcome.kind = "raise"
    /\ log[1].args[1] = call.args[1].lhs
    /\ ret.kind = "raise"

=============================================================================
